---------------------------- MODULE Spec2Model ----------------------------
(***************************************************************************)
(* A model of the PNG chunk codec of pngme: src/src/chunk_type.rs (the     *)
(* 4-byte chunk type) and src/src/chunk.rs (the chunk, its constructor,    *)
(* its serialisation and its decoder).                                     *)
(*                                                                         *)
(* Numbers.  A u8 is a natural below 256.  A u32 or usize value does not   *)
(* fit TLC's integers, so it is the pair <<q, r>> standing for             *)
(* q * 65536 + r with 0 <= r < 65536; a u32 has q < 65536.  usize is 64    *)
(* bits wide and every usize the model computes is below 2^33, so usize    *)
(* arithmetic never wraps.                                                 *)
(*                                                                         *)
(* Results.  A call ends in one of three ways: it returns Ok(value), it    *)
(* returns Err(message), or it panics.  The record                         *)
(* [tag, msg, val] stands for the three; val is read only when tag = "Ok". *)
(***************************************************************************)
EXTENDS Integers, Sequences, FiniteSets

VARIABLES
    pc,        \* the position of the caller: which call was made last
    tinput,    \* chunk type: the argument of the last constructor call
    tres,      \* chunk type: the result of the last constructor call
    props,     \* chunk type: what the property queries returned
    inp,       \* Chunk::new: its arguments [t, p]
    chunk,     \* Chunk::new: its result
    origin,    \* where buf comes from: "encoded", "corrupted" or "received"
    buf,       \* the byte buffer handed to the decoder
    decoded    \* Chunk::try_from: its result

vars == <<pc, tinput, tres, props, inp, chunk, origin, buf, decoded>>

-----------------------------------------------------------------------------
(* Results of calls *)

Ok(v) == [tag |-> "Ok", msg |-> "", val |-> v]

Err(m) == [tag |-> "Err", msg |-> m, val |-> <<>>]

Panic(m) == [tag |-> "Panic", msg |-> m, val |-> <<>>]

None == [tag |-> "None", msg |-> "", val |-> <<>>]

-----------------------------------------------------------------------------
(* src/src/chunk_type.rs *)

\* u8::is_ascii_alphabetic, as used at chunk_type.rs:47 and :113
is_ascii_alphabetic(b) == (65 <= b /\ b <= 90) \/ (97 <= b /\ b <= 122)

\* b & 32 on a u8
BitAnd32(b) == ((b \div 32) % 2) * 32

\* ChunkType::bytes: the value is the array itself (a newtype over [u8; 4])
bytes(t) == t

\* is_critical reading byte 1 instead of byte 0
is_critical_byte1(t) == BitAnd32(t[2]) = 0

is_critical(t) == BitAnd32(t[1]) = 0

is_public(t) == BitAnd32(t[2]) = 0

is_reserved_bit_valid(t) == BitAnd32(t[3]) = 0

is_safe_to_copy(t) == BitAnd32(t[4]) = 32

is_valid(t) ==
    LET third == t[3]
        fourth == t[4]
    IN  (BitAnd32(third) = 0) /\ is_ascii_alphabetic(fourth)

\* reads byte 3 of the array (index 4 here), as the source does
is_ancillary(t) == BitAnd32(t[4]) = 32

is_private(t) == BitAnd32(t[2]) = 32

\* ChunkType::is_valid_type
is_valid_type(value) == \A i \in 1..4 : is_ascii_alphabetic(value[i])

\* impl TryFrom<[u8; 4]> for ChunkType
ChunkType_try_from(value) ==
    IF is_valid_type(value) THEN Ok(value) ELSE Err("Invalid chunk type")

\* A &str is its UTF-8 bytes.  char::encode_utf8 of one code point:
encode_utf8(c) ==
    IF c < 128 THEN <<c>>
    ELSE IF c < 2048 THEN <<192 + (c \div 64), 128 + (c % 64)>>
    ELSE IF c < 65536
         THEN <<224 + (c \div 4096), 128 + ((c \div 64) % 64), 128 + (c % 64)>>
    ELSE <<240 + (c \div 262144), 128 + ((c \div 4096) % 64),
           128 + ((c \div 64) % 64), 128 + (c % 64)>>

RECURSIVE StrOf(_)
\* the &str (UTF-8 bytes) spelling a sequence of code points
StrOf(cs) == IF cs = <<>> THEN <<>> ELSE encode_utf8(Head(cs)) \o StrOf(Tail(cs))

\* the width of the UTF-8 sequence a leading byte opens
utf8_width(b) == IF b < 128 THEN 1 ELSE IF b < 224 THEN 2 ELSE IF b < 240 THEN 3 ELSE 4

\* the code point of one UTF-8 sequence
decode_utf8(u) ==
    IF Len(u) = 1 THEN u[1]
    ELSE IF Len(u) = 2 THEN (u[1] % 32) * 64 + (u[2] % 64)
    ELSE IF Len(u) = 3 THEN (u[1] % 16) * 4096 + (u[2] % 64) * 64 + (u[3] % 64)
    ELSE (u[1] % 8) * 262144 + (u[2] % 64) * 4096 + (u[3] % 64) * 64 + (u[4] % 64)

RECURSIVE chars(_)
\* str::chars: the code points of a valid UTF-8 string, in order
chars(s) ==
    IF s = <<>> THEN <<>>
    ELSE LET w == utf8_width(s[1])
         IN  <<decode_utf8(SubSeq(s, 1, w))>> \o chars(SubSeq(s, w + 1, Len(s)))

\* `c as u8`: the low 8 bits of the code point
as_u8(c) == c % 256

\* the variant that tests the number of chars instead of the byte length
from_str_chars(s) ==
    IF Len(chars(s)) # 4 THEN Err("Invalid chunk type")
    ELSE LET cs == chars(s)
         IN  ChunkType_try_from([i \in 1..4 |-> as_u8(cs[i])])

\* the inherent ChunkType::from_str: the length test is on the byte length;
\* the loop writes bytes[i] for the i-th char (an index >= 4 would panic) and
\* the bytes no char reaches stay 0
from_str(s) ==
    IF Len(s) # 4 THEN Err("Invalid chunk type")
    ELSE LET cs == chars(s)
         IN  IF Len(cs) > 4 THEN Panic("index out of bounds")
             ELSE ChunkType_try_from(
                      [i \in 1..4 |-> IF i <= Len(cs) THEN as_u8(cs[i]) ELSE 0])

\* impl FromStr for ChunkType: the same body
FromStr_from_str(s) ==
    IF Len(s) # 4 THEN Err("Invalid chunk type")
    ELSE LET cs == chars(s)
         IN  IF Len(cs) > 4 THEN Panic("index out of bounds")
             ELSE ChunkType_try_from(
                      [i \in 1..4 |-> IF i <= Len(cs) THEN as_u8(cs[i]) ELSE 0])

-----------------------------------------------------------------------------
(* u32 and usize arithmetic on pairs <<q, r>> = q * 65536 + r *)

\* a small natural as a usize
W(n) == <<n \div 65536, n % 65536>>

\* a usize known to be small, as a natural
ToNat(w) == w[1] * 65536 + w[2]

WAdd(a, b) ==
    LET r == a[2] + b[2]
    IN  <<a[1] + b[1] + (r \div 65536), r % 65536>>

WLe(a, b) == a[1] < b[1] \/ (a[1] = b[1] /\ a[2] <= b[2])

WLt(a, b) == ~WLe(b, a)

\* u32::MAX = 2^32 - 1
U32_MAX == <<65535, 65535>>

\* `x as u32` of a usize: the low 32 bits
as_u32(w) == <<w[1] % 65536, w[2]>>

\* u32::to_be_bytes: most significant byte first
to_be_bytes(x) == <<x[1] \div 256, x[1] % 256, x[2] \div 256, x[2] % 256>>

\* u32::to_le_bytes: least significant byte first
to_le_bytes(x) == <<x[2] % 256, x[2] \div 256, x[1] % 256, x[1] \div 256>>

\* u32::from_be_bytes
from_be_bytes(b) == <<b[1] * 256 + b[2], b[3] * 256 + b[4]>>

RECURSIVE XorBits(_, _, _)
\* a ^ b on n-bit naturals
XorBits(a, b, n) ==
    IF n = 0 THEN 0
    ELSE ((a + b) % 2) + 2 * XorBits(a \div 2, b \div 2, n - 1)

\* a ^ b on u32
Xor32(a, b) == <<XorBits(a[1], b[1], 16), XorBits(a[2], b[2], 16)>>

\* x << 1 on u32
Shl1(x) == <<(x[1] * 2 + (x[2] \div 32768)) % 65536, (x[2] * 2) % 65536>>

-----------------------------------------------------------------------------
(* crc::CRC_32_CKSUM, as chunk.rs:38 and :140 use it: width 32, poly       *)
(* 0x04c11db7, init 0, no reflection, xorout 0xffffffff                    *)

CKSUM_POLY == <<1217, 7607>>

CKSUM_INIT == <<0, 0>>

CKSUM_XOROUT == <<65535, 65535>>

RECURSIVE CrcShift(_, _)
\* k steps of the shift register, most significant bit first
CrcShift(x, k) ==
    IF k = 0 THEN x
    ELSE CrcShift(IF x[1] >= 32768 THEN Xor32(Shl1(x), CKSUM_POLY) ELSE Shl1(x),
                  k - 1)

RECURSIVE CrcUpdate(_, _)
\* the register after the bytes of s
CrcUpdate(x, s) ==
    IF s = <<>> THEN x
    ELSE CrcUpdate(CrcShift(Xor32(x, <<Head(s) * 256, 0>>), 8), Tail(s))

\* Crc::<u32>::new(&crc::CRC_32_CKSUM).checksum(s)
checksum(s) == Xor32(CrcUpdate(CKSUM_INIT, s), CKSUM_XOROUT)

-----------------------------------------------------------------------------
(* src/src/chunk.rs *)

\* A Vec<u8> argument is [len, bytes] with len = Len(bytes) as a usize.  A
\* vector longer than u32::MAX cannot be written out; it is given by its len
\* alone, which is all Chunk::new reads of it before it stops.
Vec(s) == [len |-> W(Len(s)), bytes |-> s]

\* Chunk::new
Chunk_new(chunk_type, data) ==
    IF WLt(U32_MAX, data.len) THEN Panic("Data length is too long")
    ELSE LET my_crc == checksum(data.bytes)
         IN  Ok([length |-> as_u32(data.len),
                 chunk_type |-> chunk_type,
                 data |-> data.bytes,
                 crc |-> my_crc])

\* Chunk::as_bytes writing the length least significant byte first
as_bytes_le(c) ==
    to_le_bytes(c.length) \o bytes(c.chunk_type) \o c.data \o to_be_bytes(c.crc)

\* Chunk::as_bytes
as_bytes(c) ==
    to_be_bytes(c.length) \o bytes(c.chunk_type) \o c.data \o to_be_bytes(c.crc)

\* v[start..end] is in bounds iff start <= end <= v.len(); otherwise the
\* index panics
slice_ok(start, end, len) == WLe(start, end) /\ WLe(end, len)

\* v[start..end] of an in-bounds range (0-based, end exclusive)
slice(v, start, end) == SubSeq(v, ToNat(start) + 1, ToNat(end))

\* impl TryFrom<&[u8]> for Chunk, lines 132-155: from the payload slice on.
\* `data` is rebound to the payload vector at line 133, so the index at
\* line 136 is taken in the payload, not in the input buffer.
try_from_payload(input, length, chunk_type) ==
    IF ~slice_ok(W(8), WAdd(W(8), length), W(Len(input)))
    THEN Panic("range end index out of range for slice (chunk.rs:133)")
    ELSE LET data == slice(input, W(8), WAdd(W(8), length))
         IN  IF ~slice_ok(WAdd(W(8), length), WAdd(W(12), length), W(Len(data)))
             THEN Panic("range end index out of range for slice (chunk.rs:136)")
             ELSE LET crc == from_be_bytes(
                                 slice(data, WAdd(W(8), length), WAdd(W(12), length)))
                      my_crc == checksum(data)
                  IN  IF crc # my_crc THEN Err("CRC does not match")
                      ELSE Ok([length |-> length,
                               chunk_type |-> chunk_type,
                               data |-> data,
                               crc |-> crc])

\* the decoder taking the payload slice before it validates the chunk type
Chunk_try_from_slice_first(input) ==
    IF Len(input) < 12 THEN Err("Data length is too short")
    ELSE LET length == from_be_bytes(SubSeq(input, 1, 4))
             r == try_from_payload(input, length, SubSeq(input, 5, 8))
             ct == ChunkType_try_from(SubSeq(input, 5, 8))
         IN  IF r.tag = "Panic" THEN r
             ELSE IF ct.tag # "Ok" THEN Err(ct.msg)
             ELSE r

\* impl TryFrom<&[u8]> for Chunk
Chunk_try_from(input) ==
    IF Len(input) < 12 THEN Err("Data length is too short")
    ELSE LET length == from_be_bytes(SubSeq(input, 1, 4))
         IN  IF WLt(U32_MAX, length) THEN Err("Data length is too long")
             ELSE LET ct == ChunkType_try_from(SubSeq(input, 5, 8))
                  IN  IF ct.tag # "Ok" THEN Err(ct.msg)
                      ELSE try_from_payload(input, length, ct.val)

-----------------------------------------------------------------------------
(* Bounds and input sets *)

\* the longest payload written out
MaxLen == 2

\* the longest string, in chars
MaxChars == 4

\* all sequences over S of length at most n
SeqsUpTo(S, n) == UNION {[1..k -> S] : k \in 0..n}

\* bytes tried in a [u8; 4]: the edges of A-Z and a-z, letters, a digit
TypeByteValues == {0, 49, 64, 65, 82, 90, 91, 96, 97, 117, 122, 123, 255}

\* chars tried in a string: '1', 'A', 'z', and chars of 2, 3 and 4 UTF-8
\* bytes whose low 8 bits are 'A' (U+0141, U+2041, U+10041)
CodePoints == {49, 65, 122, 321, 8257, 65601}

\* "RuSt", "IEND", "Ru1t"
SampleTypes == {<<82, 117, 83, 116>>, <<73, 69, 78, 68>>, <<82, 117, 49, 116>>}

PayloadBytes == {0, 65, 255}

\* payload vectors: every one up to MaxLen, and two longer than u32::MAX
Payloads ==
    {Vec(s) : s \in SeqsUpTo(PayloadBytes, MaxLen)}
        \cup {[len |-> <<65536, k>>, bytes |-> <<>>] : k \in {0, 1}}

\* values tried in the length field of a received buffer
LengthFields ==
    {W(0), W(1), W(2), W(MaxLen + 1), <<1, 0>>, <<32768, 0>>, U32_MAX}

\* buffers a caller may hand to the decoder: a length field, a type field and
\* any bytes after them, or a header cut short
RawBuffers ==
    {to_be_bytes(l) \o t \o r :
        l \in LengthFields, t \in SampleTypes,
        r \in SeqsUpTo(PayloadBytes, MaxLen + 4)}
    \cup {SubSeq(to_be_bytes(l) \o t, 1, n) :
             l \in LengthFields, t \in SampleTypes, n \in 0..7}

NoProps ==
    [is_critical |-> FALSE, is_public |-> FALSE, is_reserved_bit_valid |-> FALSE,
     is_safe_to_copy |-> FALSE, is_valid |-> FALSE, is_ancillary |-> FALSE,
     is_private |-> FALSE]

-----------------------------------------------------------------------------
(* The caller *)

Init ==
    /\ pc = "start"
    /\ tinput = <<>>
    /\ tres = None
    /\ props = NoProps
    /\ inp = [t |-> <<>>, p |-> Vec(<<>>)]
    /\ chunk = None
    /\ origin = "none"
    /\ buf = <<>>
    /\ decoded = None

\* ChunkType::try_from(value)
TypeTryFrom ==
    /\ pc = "start"
    /\ \E value \in [1..4 -> TypeByteValues] :
          /\ tinput' = value
          /\ tres' = ChunkType_try_from(value)
    /\ pc' = "try_from"
    /\ UNCHANGED <<props, inp, chunk, origin, buf, decoded>>

\* ChunkType::from_str(s), the inherent method
TypeFromStr ==
    /\ pc = "start"
    /\ \E cs \in SeqsUpTo(CodePoints, MaxChars) :
          /\ tinput' = StrOf(cs)
          /\ tres' = from_str(StrOf(cs))
    /\ pc' = "from_str"
    /\ UNCHANGED <<props, inp, chunk, origin, buf, decoded>>

\* <ChunkType as FromStr>::from_str(s)
TypeFromStrTrait ==
    /\ pc = "start"
    /\ \E cs \in SeqsUpTo(CodePoints, MaxChars) :
          /\ tinput' = StrOf(cs)
          /\ tres' = FromStr_from_str(StrOf(cs))
    /\ pc' = "FromStr_from_str"
    /\ UNCHANGED <<props, inp, chunk, origin, buf, decoded>>

\* the property queries on a constructed ChunkType
Query ==
    /\ pc \in {"try_from", "from_str", "FromStr_from_str"}
    /\ tres.tag = "Ok"
    /\ props' = [is_critical |-> is_critical(tres.val),
                 is_public |-> is_public(tres.val),
                 is_reserved_bit_valid |-> is_reserved_bit_valid(tres.val),
                 is_safe_to_copy |-> is_safe_to_copy(tres.val),
                 is_valid |-> is_valid(tres.val),
                 is_ancillary |-> is_ancillary(tres.val),
                 is_private |-> is_private(tres.val)]
    /\ pc' = "queried"
    /\ UNCHANGED <<tinput, tres, inp, chunk, origin, buf, decoded>>

NextType == TypeTryFrom \/ TypeFromStr \/ TypeFromStrTrait \/ Query

SpecType == Init /\ [][NextType]_vars

\* the caller obtains the chunk type of a chunk from the validating constructor
MakeType ==
    /\ pc = "start"
    /\ \E value \in SampleTypes :
          /\ tinput' = value
          /\ tres' = ChunkType_try_from(value)
    /\ pc' = "typed"
    /\ UNCHANGED <<props, inp, chunk, origin, buf, decoded>>

\* Chunk::new(chunk_type, data)
NewChunk ==
    /\ pc = "typed"
    /\ tres.tag = "Ok"
    /\ \E p \in Payloads :
          /\ inp' = [t |-> tres.val, p |-> p]
          /\ chunk' = Chunk_new(tres.val, p)
    /\ pc' = "built"
    /\ UNCHANGED <<tinput, tres, props, origin, buf, decoded>>

\* chunk.as_bytes()
AsBytes ==
    /\ pc = "built"
    /\ chunk.tag = "Ok"
    /\ buf' = as_bytes(chunk.val)
    /\ origin' = "encoded"
    /\ pc' = "encoded"
    /\ UNCHANGED <<tinput, tres, props, inp, chunk, decoded>>

\* one byte of the serialized chunk is changed before it is decoded
Corrupt ==
    /\ pc = "encoded"
    /\ \E i \in 1..Len(buf) :
          \E v \in {XorBits(buf[i], 1, 8), 0, 49, 255} \ {buf[i]} :
             buf' = [buf EXCEPT ![i] = v]
    /\ origin' = "corrupted"
    /\ pc' = "altered"
    /\ UNCHANGED <<tinput, tres, props, inp, chunk, decoded>>

\* the serialized chunk is cut short before it is decoded
Truncate ==
    /\ pc = "encoded"
    /\ \E n \in 0..(Len(buf) - 1) : buf' = SubSeq(buf, 1, n)
    /\ origin' = "truncated"
    /\ pc' = "altered"
    /\ UNCHANGED <<tinput, tres, props, inp, chunk, decoded>>

\* the caller has a raw buffer of its own
Receive ==
    /\ pc = "start"
    /\ \E raw \in RawBuffers : buf' = raw
    /\ origin' = "received"
    /\ pc' = "received"
    /\ UNCHANGED <<tinput, tres, props, inp, chunk, decoded>>

\* Chunk::try_from(&buf[..])
Decode ==
    /\ pc \in {"encoded", "altered", "received"}
    /\ decoded' = Chunk_try_from(buf)
    /\ pc' = "decoded"
    /\ UNCHANGED <<tinput, tres, props, inp, chunk, origin, buf>>

Next ==
    MakeType \/ NewChunk \/ AsBytes \/ Corrupt \/ Truncate \/ Receive \/ Decode

Spec == Init /\ [][Next]_vars

-----------------------------------------------------------------------------
(* Vocabulary of the claims *)

IsUpper(b) == 65 <= b /\ b <= 90

IsLower(b) == 97 <= b /\ b <= 122

IsLetter(b) == IsUpper(b) \/ IsLower(b)

\* the buffer is at least an envelope and its type field is a valid type
HasValidHeader == Len(buf) >= 12 /\ \A i \in 5..8 : IsLetter(buf[i])

\* the length field of the buffer
DeclaredLength == from_be_bytes(SubSeq(buf, 1, 4))

\* the buffer holds the declared payload and the 4 checksum bytes after it
IsComplete == WLe(WAdd(W(12), DeclaredLength), W(Len(buf)))

\* the payload and the stored checksum of a complete buffer
PayloadOfBuf == SubSeq(buf, 9, 8 + ToNat(DeclaredLength))

StoredCrc ==
    from_be_bytes(SubSeq(buf, 9 + ToNat(DeclaredLength), 12 + ToNat(DeclaredLength)))

\* Chunk::new was given a vector longer than u32::MAX
Oversized == WLt(U32_MAX, inp.p.len)

-----------------------------------------------------------------------------
(* Claims *)

\* C1: round trip.  Decoding the bytes as_bytes gives for Chunk::new(t, p)
\* returns Ok with a chunk equal to Chunk::new(t, p).
C1_RoundTrip ==
    (pc = "decoded" /\ origin = "encoded")
        => (decoded.tag = "Ok" /\ decoded.val = chunk.val)

\* C2: a buffer of at least 12 bytes with a valid type whose declared length
\* needs more bytes than the buffer holds is answered with an error result,
\* not with an index outside the slice.
C2_TruncatedIsError ==
    (pc = "decoded" /\ HasValidHeader /\ ~IsComplete) => decoded.tag = "Err"

\* C3: a complete serialized chunk whose stored checksum differs from the
\* recomputed one is answered with the checksum error result.
C3_ChecksumMismatchIsError ==
    (pc = "decoded" /\ HasValidHeader /\ IsComplete
        /\ StoredCrc # checksum(PayloadOfBuf))
        => (decoded.tag = "Err" /\ decoded.msg = "CRC does not match")

\* C4: the checksum stored by Chunk::new(t, p) is the checksum of the 4 type
\* bytes followed by p.
C4_ChecksumCoversType ==
    (pc \in {"built", "encoded"} /\ chunk.tag = "Ok")
        => chunk.val.crc = checksum(bytes(inp.t) \o inp.p.bytes)

\* C5: as_bytes gives 12 + data.len() bytes: the length big-endian, the 4 type
\* bytes, the payload unchanged, the checksum big-endian; the chunk it was
\* called on is still the chunk Chunk::new built.
C5_WireLayout ==
    pc = "encoded" =>
        LET c == chunk.val
            n == Len(inp.p.bytes)
        IN  /\ Len(buf) = 12 + n
            /\ from_be_bytes(SubSeq(buf, 1, 4)) = W(n)
            /\ \A i \in 1..4 : buf[i] \in 0..255
            /\ SubSeq(buf, 5, 8) = inp.t
            /\ SubSeq(buf, 9, 8 + n) = inp.p.bytes
            /\ from_be_bytes(SubSeq(buf, 9 + n, 12 + n)) = c.crc
            /\ \A i \in (9 + n)..(12 + n) : buf[i] \in 0..255
            /\ c.length = W(n) /\ c.chunk_type = inp.t /\ c.data = inp.p.bytes
            /\ c.crc = checksum(inp.p.bytes)

C5_Witness ==
    /\ pc = "encoded"
    /\ Len(chunk.val.data) = 2
    /\ chunk.val.data[1] = 255
    /\ buf[9] = 255

\* C6: ChunkType::try_from(value) is Ok iff the four bytes are letters; both
\* from_str(s) are Ok iff s is 4 bytes long and every byte is a letter; on
\* success the stored bytes are the input bytes; neither panics.
C6_OnlyFourLetters ==
    /\ pc = "try_from" =>
          /\ tres.tag \in {"Ok", "Err"}
          /\ tres.tag = "Ok" <=> (\A i \in 1..4 : IsLetter(tinput[i]))
          /\ tres.tag = "Ok" => tres.val = tinput
    /\ pc \in {"from_str", "FromStr_from_str"} =>
          /\ tres.tag \in {"Ok", "Err"}
          /\ tres.tag = "Ok" <=>
                (Len(tinput) = 4 /\ \A i \in 1..Len(tinput) : IsLetter(tinput[i]))
          /\ tres.tag = "Ok" => tres.val = tinput

\* a string of 4 bytes holding a non-ASCII char whose low byte is 'A' is rejected
C6_Witness ==
    /\ pc = "from_str"
    /\ Len(tinput) = 4
    /\ tinput[1] >= 128
    /\ tres.tag = "Err"

\* C7: is_ancillary is the negation of is_critical and is_private the negation
\* of is_public.
C7_Complements ==
    pc = "queried" =>
        /\ props.is_ancillary = ~props.is_critical
        /\ props.is_private = ~props.is_public

\* C8: on a validated type each query is decided by the case of its own byte,
\* and is_valid holds iff byte 2 is uppercase and byte 3 is a letter.
C8_CaseOfOwnByte ==
    pc = "queried" =>
        LET t == tres.val
        IN  /\ props.is_critical <=> IsUpper(t[1])
            /\ props.is_public <=> IsUpper(t[2])
            /\ props.is_reserved_bit_valid <=> IsUpper(t[3])
            /\ props.is_safe_to_copy <=> IsLower(t[4])
            /\ props.is_valid <=> (IsUpper(t[3]) /\ IsLetter(t[4]))

\* "RuZz": critical, private, reserved bit valid, safe to copy
C8_Witness ==
    /\ pc = "queried"
    /\ tres.val = <<82, 117, 90, 122>>
    /\ props.is_critical /\ ~props.is_public
    /\ props.is_reserved_bit_valid /\ props.is_safe_to_copy /\ props.is_valid

\* C9: a payload longer than u32::MAX gives a failure result returned to the
\* caller (no chunk with a wrapped length, nothing fatal), and a payload within
\* the bound a chunk with length = data.len().
C9_OversizedIsError ==
    pc = "built" =>
        /\ Oversized => chunk.tag = "Err"
        /\ ~Oversized => (chunk.tag = "Ok" /\ chunk.val.length = inp.p.len)

\* C10: a buffer shorter than 12 bytes fails as too short whatever it holds; a
\* buffer of at least 12 bytes whose type field is not four letters fails as an
\* invalid chunk type whatever its length field, payload and checksum.
C10_CheckOrder ==
    pc = "decoded" =>
        /\ Len(buf) < 12 =>
              (decoded.tag = "Err" /\ decoded.msg = "Data length is too short")
        /\ (Len(buf) >= 12 /\ \E i \in 5..8 : ~IsLetter(buf[i])) =>
              (decoded.tag = "Err" /\ decoded.msg = "Invalid chunk type")

\* an invalid type field in a buffer whose length field points past its end
C10_Witness ==
    /\ pc = "decoded"
    /\ Len(buf) >= 12
    /\ \E i \in 5..8 : ~IsLetter(buf[i])
    /\ ~IsComplete
    /\ decoded.tag = "Err"
    /\ decoded.msg = "Invalid chunk type"

=============================================================================
